---------------------------- MODULE Spec2Model ----------------------------
(***************************************************************************)
(* A model of LinearlyVariableInfill.execute (a Cura post-processing       *)
(* script) and of the helper functions it calls.                           *)
(*                                                                         *)
(* Numbers.  Python floats are modelled as fixed-point integers:           *)
(*   - coordinates in units of 0.0001 mm   (CoordUnit units per mm),       *)
(*   - extrusion values of G-code fields in units of 0.000001 mm, and      *)
(*     inside the grader in "fine" units, EFine of them per 0.000001 mm,   *)
(*     so that 0.006584 mm of filament per mm of travel is the integer     *)
(*     KFine per coordinate unit,                                          *)
(*   - feed rates of G-code fields in mm/min, and inside the grader in     *)
(*     hundredths (the speed factors are percentages divided by 100).      *)
(* A division whose result is not a whole number of units is truncated.    *)
(*                                                                         *)
(* Text.  A line of G-code is a sequence of elements (the pieces that      *)
(* str.split(" ") yields); an element has a token t (the command, the      *)
(* field letter or the comment text), the numeric value v that follows a   *)
(* field letter, and sp, TRUE when a space follows the element.  A string  *)
(* holding several "\n"-separated lines is a sequence of lines.            *)
(***************************************************************************)
EXTENDS Integers, Sequences, FiniteSets, TLC

VARIABLES
    pc,                 \* position in execute
    input,              \* the program handed to execute (never changes)
    data,               \* the caller's list of layers, mutated in place
    returned,           \* what execute hands back: "pending", "None" or "data"
    fault,              \* name of the exception that ended the run, or "none"
    message,            \* reason shown to the user by Message(...).show()
    cfg,                \* the settings read by getSettingValueByKey
    infillpattern, connectinfill, infill_type,
    layer_pos,          \* position of `for layer in data`
    lines,              \* the list `lines` of the layer being processed
    line_pos,           \* position of `for currentLineINcode in lines`
    currentSection, lastPosition, perimeterSegments, current_speed,
    ev                  \* what the last iteration of the line loop did

vars == <<pc, input, data, returned, fault, message, cfg, infillpattern,
          connectinfill, infill_type, layer_pos, lines, line_pos,
          currentSection, lastPosition, perimeterSegments, current_speed, ev>>

-----------------------------------------------------------------------------
(* Bounds of the model *)

MaxLayers == 2

-----------------------------------------------------------------------------
(* Units *)

CoordUnit == 10000
EFine == 1250
KFine == 823
SpeedUnit == 100
UScale == 10000

Point2D(x, y) == [x |-> x, y |-> y]
Segment(p1, p2) == [point1 |-> p1, point2 |-> p2]

NOTHING == "NOTHING"
INNER_WALL == "INNER_WALL"
OUTER_WALL == "OUTER_WALL"
INFILL == "INFILL"

-----------------------------------------------------------------------------
(* Arithmetic helpers *)

\* int(x) of a float x = n / q: truncation toward zero
Trunc(n, q) == IF n >= 0 THEN n \div q ELSE -((-n) \div q)

\* round(x, d): n rounded to the nearest multiple of q, ties to even
RoundTo(n, q) ==
    LET f == n \div q
        r == n - f * q
    IN  IF 2 * r < q THEN f * q
        ELSE IF 2 * r > q THEN (f + 1) * q
        ELSE IF f % 2 = 0 THEN f * q ELSE (f + 1) * q

RECURSIVE SqrtBin(_, _, _)
SqrtBin(n, lo, hi) ==
    IF hi - lo <= 1 THEN lo
    ELSE LET mid == (lo + hi) \div 2
         IN  IF mid * mid <= n THEN SqrtBin(n, mid, hi) ELSE SqrtBin(n, lo, mid)

\* x ** 0.5, truncated to a whole number of units
Sqrt(n) == IF n = 0 THEN 0 ELSE SqrtBin(n, 0, 46341)

-----------------------------------------------------------------------------
(* Text *)

El(t, v, sp) == [t |-> t, v |-> v, sp |-> sp]

\* the text of a line written as elements separated by single spaces
Ln(els) == [i \in 1..Len(els) |-> El(els[i][1], els[i][2], i < Len(els))]

LAYER_MARK == ";LAYER:"
INNER_MARK == ";TYPE:WALL-INNER"
OUTER_MARK == ";TYPE:WALL-OUTER"
FILL_MARK == ";TYPE:FILL"
MESH_MARK == ";MESH:NONMESH"

\* the substrings, among those the code tests for, that an element contains
Substrings(el) ==
    CASE el.t = LAYER_MARK -> {";", "E", "Y"}
      [] el.t = INNER_MARK -> {";", "E", "Y"}
      [] el.t = OUTER_MARK -> {";", "E", "Y"}
      [] el.t = FILL_MARK  -> {";", "E", "Y", "F"}
      [] el.t = MESH_MARK  -> {";", "E"}
      [] OTHER -> {el.t}

\* s in line
In(s, line) == \E i \in 1..Len(line) : s \in Substrings(line[i])

\* " X" in line: an X that follows a space
InAfterSpace(s, line) == \E i \in 2..Len(line) : s \in Substrings(line[i])

\* line.startswith(mark)
StartsWith(line, mark) == Len(line) > 0 /\ line[1].t = mark

is_layer(line) == StartsWith(line, LAYER_MARK)
is_innerwall(line) == StartsWith(line, INNER_MARK)
is_outerwall(line) == StartsWith(line, OUTER_MARK)
is_infill(line) == StartsWith(line, FILL_MARK)

ez_nyomtatasi_vonal(line) ==
    In("G1", line) /\ InAfterSpace("X", line) /\ In("Y", line) /\ In("E", line)

\* re.search(r"X(\d*\.?\d*)", line): the first element with that letter
FirstOf(s, line) ==
    line[CHOOSE i \in 1..Len(line) :
            /\ line[i].t = s
            /\ \A j \in 1..(i - 1) : line[j].t # s]

\* getXY: a sign after the letter leaves the group empty and float("") raises
getXYFault(line) ==
    IF ~(In("X", line) /\ In("Y", line)) THEN "SyntaxError"
    ELSE IF FirstOf("X", line).v < 0 \/ FirstOf("Y", line).v < 0 THEN "ValueError"
    ELSE "none"

getXY(line) == Point2D(FirstOf("X", line).v, FirstOf("Y", line).v)

-----------------------------------------------------------------------------
(* Geometry *)

two_points_distance(point1, point2) ==
    Sqrt((point1.x - point2.x) * (point1.x - point2.x)
         + (point1.y - point2.y) * (point1.y - point2.y))

\* dist raises ZeroDivisionError for a segment of length zero
distFault(segment) ==
    LET px == segment.point2.x - segment.point1.x
        py == segment.point2.y - segment.point1.y
    IN  px * px + py * py = 0

dist(segment, point) ==
    LET px == segment.point2.x - segment.point1.x
        py == segment.point2.y - segment.point1.y
        norm == px * px + py * py
        a == (point.x - segment.point1.x) * px + (point.y - segment.point1.y) * py
        \* u, clamped to [0, 1], in units of 1 / UScale
        q == IF norm >= UScale THEN a \div (norm \div UScale)
             ELSE (a * UScale) \div norm
        u == IF a > norm THEN UScale
             ELSE IF a < 0 THEN 0
             ELSE IF q > UScale THEN UScale
             ELSE q
        x == segment.point1.x + (u * px) \div UScale
        y == segment.point1.y + (u * py) \div UScale
        dx == x - point.x
        dy == y - point.y
    IN  Sqrt(dx * dx + dy * dy)

SetMin(S) == CHOOSE m \in S : \A o \in S : m <= o

min_distance_to_segment(segment, segments) ==
    LET middlePoint == Point2D((segment.point1.x + segment.point2.x) \div 2,
                               (segment.point1.y + segment.point2.y) \div 2)
    IN  SetMin({dist(segments[i], middlePoint) : i \in 1..Len(segments)})

-----------------------------------------------------------------------------
(* Pattern eligibility: fill_type and the settings *)

\* variant of fill_type: cubicsubdiv taken for a linear-style pattern
fill_type_Subdiv(Mode) ==
    IF Mode \in {"grid", "lines", "triangles", "trihexagon", "cubic", "cubicsubdiv",
                 "tetrahedral", "quarter_cubic"}
    THEN 1 ELSE 0

fill_type(Mode) ==
    LET m1  == IF Mode = "grid" THEN 1 ELSE 0
        m2  == IF Mode = "lines" THEN 1 ELSE m1
        m3  == IF Mode = "triangles" THEN 1 ELSE m2
        m4  == IF Mode = "trihexagon" THEN 1 ELSE m3
        m5  == IF Mode = "cubic" THEN 1 ELSE m4
        m6  == IF Mode = "cubicsubdiv" THEN 0 ELSE m5
        m7  == IF Mode = "tetrahedral" THEN 1 ELSE m6
        m8  == IF Mode = "quarter_cubic" THEN 1 ELSE m7
        m9  == IF Mode = "concentric" THEN 0 ELSE m8
        m10 == IF Mode = "zigzag" THEN 0 ELSE m9
        m11 == IF Mode = "cross" THEN 0 ELSE m10
        m12 == IF Mode = "cross_3d" THEN 0 ELSE m11
        m13 == IF Mode = "gyroid" THEN 0 ELSE m12
    IN  m13

\* the identifiers the host can answer for infill_pattern
Patterns ==
    {"grid", "lines", "triangles", "trihexagon", "cubic", "cubicsubdiv",
     "tetrahedral", "quarter_cubic", "concentric", "zigzag", "cross",
     "cross_3d", "gyroid", "lightning"}

NoPattern == "-"

\* settings: lengths in coordinate units, speed factors in percent
Settings ==
    [division_nr : {1, 2},
     variable_segment_lengh : {1 * CoordUnit},
     variable_speed : BOOLEAN,
     max_speed_factor : {200},
     min_speed_factor : {60}]
    \cup
    { [division_nr |-> 2, variable_segment_lengh |-> 1 * CoordUnit,
       variable_speed |-> TRUE, max_speed_factor |-> 150, min_speed_factor |-> 60] }

littleSegmentLength(c) == c.variable_segment_lengh \div c.division_nr

-----------------------------------------------------------------------------
(* Formatting *)

NoFeed == -1

\* "G1 X{} Y{} E{}".format(round(x, 3), round(y, 3), round(extrusion, 5));
\* extrusion is in fine units, the E field in units of 0.000001 mm
gcode_template(x, y, extrusion) ==
    Ln(<< <<"G1", 0>>,
          <<"X", RoundTo(x, CoordUnit \div 1000)>>,
          <<"Y", RoundTo(y, CoordUnit \div 1000)>>,
          <<"E", RoundTo(extrusion, 10 * EFine) \div EFine>> >>)

\* text + " F{}".format(feed), or text alone when the feed string is empty
AppendFeed(text, feed) ==
    IF feed = NoFeed THEN text
    ELSE [i \in 1..(Len(text) + 1) |->
            IF i <= Len(text) THEN El(text[i].t, text[i].v, TRUE)
            ELSE El("F", feed, FALSE)]

\* "G1 F{}\n".format(current_speed), without the "\n"
FeedLine(speed) == Ln(<< <<"G1", 0>>, <<"F", speed>> >>)

\* float(element[1:]) of the last element that contains "E", in fine units
E_inCode(line) ==
    LET i == CHOOSE k \in 1..Len(line) :
                /\ "E" \in Substrings(line[k])
                /\ \A j \in (k + 1)..Len(line) : "E" \notin Substrings(line[j])
    IN  line[i].v * EFine

\* the line rebuilt from its elements for a move that is not subdivided
outPutLine(line) ==
    [i \in 1..Len(line) |->
        IF "E" \in Substrings(line[i])
        THEN El("E", RoundTo(E_inCode(line), 10 * EFine) \div EFine, FALSE)
        ELSE El(line[i].t, line[i].v, TRUE)]

-----------------------------------------------------------------------------
(* The segment grader: lines 437-523 of execute *)

Unbound == [bound |-> FALSE, segs |-> << >>]
Bound(segs) == [bound |-> TRUE, segs |-> segs]
NoSpeed == -1

\* speed_deficit, in hundredths of mm/min
speed_deficit(c, speed) ==
    (speed * c.max_speed_factor + speed * c.min_speed_factor) \div c.division_nr

\* step_number >= segmentSteps - division_nr, with segmentSteps = full / little
InTrailingRamp(c, step_number, full) ==
    (step_number + c.division_nr) * littleSegmentLength(c) >= full

\* variant of Ramp: the trailing ramp adds the deficit instead of taking it off
Ramp_TrailingUp(c, speed, base, step_number, last_step_number, full) ==
    LET lead == IF step_number < c.division_nr
                THEN speed * c.min_speed_factor
                     + ((speed * c.max_speed_factor + speed * c.min_speed_factor)
                        \div c.division_nr) * step_number
                ELSE speed * c.max_speed_factor
    IN  IF (step_number + c.division_nr) * (c.variable_segment_lengh \div c.division_nr)
           >= full
        THEN [segmentSpeed |-> speed * c.max_speed_factor
                               + ((speed * c.max_speed_factor
                                   + speed * c.min_speed_factor) \div c.division_nr)
                                 * last_step_number,
              last_step_number |-> last_step_number + 1,
              trailing |-> TRUE]
        ELSE [segmentSpeed |-> lead, last_step_number |-> last_step_number,
              trailing |-> FALSE]

\* variant of Ramp: past the leading ramp a step keeps the feed of its row
Ramp_KeepsBase(c, speed, base, step_number, last_step_number, full) ==
    IF (step_number + c.division_nr) * (c.variable_segment_lengh \div c.division_nr)
       >= full
    THEN [segmentSpeed |-> speed * c.max_speed_factor
                           - ((speed * c.max_speed_factor + speed * c.min_speed_factor)
                              \div c.division_nr) * last_step_number,
          last_step_number |-> last_step_number + 1,
          trailing |-> TRUE]
    ELSE [segmentSpeed |-> IF step_number < c.division_nr
                           THEN speed * c.min_speed_factor
                                + ((speed * c.max_speed_factor
                                    + speed * c.min_speed_factor) \div c.division_nr)
                                  * step_number
                           ELSE base,
          last_step_number |-> last_step_number,
          trailing |-> FALSE]

\* the three independent ifs of lines 473-481 and of lines 489-498: the speed
\* of the step and the new value of last_step_number
Ramp(c, speed, base, step_number, last_step_number, full) ==
    LET s1 == IF step_number < c.division_nr
              THEN speed * c.min_speed_factor + speed_deficit(c, speed) * step_number
              ELSE base
        s2 == IF step_number >= c.division_nr
              THEN speed * c.max_speed_factor
              ELSE s1
    IN  IF InTrailingRamp(c, step_number, full)
        THEN [segmentSpeed |-> speed * c.max_speed_factor
                               - speed_deficit(c, speed) * last_step_number,
              last_step_number |-> last_step_number + 1,
              trailing |-> TRUE]
        ELSE [segmentSpeed |-> s2, last_step_number |-> last_step_number,
              trailing |-> FALSE]

\* the fault raised by min_distance_to_segment(..., perimeterSegments), if any
WallFault(walls) ==
    IF ~walls.bound THEN "UnboundLocalError"
    ELSE IF walls.segs = << >> THEN "ValueError"
    ELSE IF \E i \in 1..Len(walls.segs) : distFault(walls.segs[i])
         THEN "ZeroDivisionError"
    ELSE "none"

\* one iteration of `for step in range(int(segmentSteps))`, lines 462-505;
\* g holds what the loop reads and writes
GradeStep(c, walls, speed, full, vec, perStep, g) ==
    LET wf == WallFault(walls)
        Emit(segmentEnd, extrudeLength, near, r) ==
            LET stringFeed == IF c.variable_speed
                              THEN Trunc(r.segmentSpeed, SpeedUnit)
                              ELSE g.stringFeed
            IN  [fault |-> "none",
                 lastPosition |-> segmentEnd,
                 E_inCode_last |-> extrudeLength,
                 step_number |-> g.step_number + 1,
                 last_step_number |-> r.last_step_number,
                 stringFeed |-> stringFeed,
                 new_Line |-> Append(g.new_Line,
                                     AppendFeed(gcode_template(segmentEnd.x, segmentEnd.y,
                                                               extrudeLength), stringFeed)),
                 es |-> Append(g.es, extrudeLength),
                 feeds |-> Append(g.feeds, r.segmentSpeed),
                 trail |-> Append(g.trail, r.trailing),
                 nears |-> Append(g.nears, near)]
        Speed(segmentEnd, near) ==
            LET base == IF near THEN speed * SpeedUnit ELSE speed * c.min_speed_factor
            IN  Emit(segmentEnd, g.E_inCode_last + perStep, near,
                     IF c.variable_speed
                     THEN Ramp(c, speed, base, g.step_number, g.last_step_number, full)
                     ELSE [segmentSpeed |-> base,
                           last_step_number |-> g.last_step_number,
                           trailing |-> FALSE])
        Step(segmentEnd) ==
            LET shortestDistance ==
                    min_distance_to_segment(Segment(g.lastPosition, segmentEnd),
                                            walls.segs)
            IN  Speed(segmentEnd, shortestDistance < c.variable_segment_lengh)
    IN  IF wf # "none" THEN [g EXCEPT !.fault = wf]
        ELSE Step(Point2D(g.lastPosition.x + vec.x, g.lastPosition.y + vec.y))

RECURSIVE GradeLoop(_, _, _, _, _, _, _, _)
GradeLoop(c, walls, speed, full, vec, perStep, g, left) ==
    IF left = 0 \/ g.fault # "none" THEN g
    ELSE GradeLoop(c, walls, speed, full, vec, perStep,
                   GradeStep(c, walls, speed, full, vec, perStep, g), left - 1)

\* segmentSteps >= 2, with segmentSteps = fullSegmentLength / littleSegmentLength
Subdivided(c, full) == full >= 2 * littleSegmentLength(c)

\* variant of StepCount: segmentSteps rounded up
StepCount_Up(c, full) ==
    (full + (c.variable_segment_lengh \div c.division_nr) - 1)
        \div (c.variable_segment_lengh \div c.division_nr)

\* int(segmentSteps)
StepCount(c, full) == full \div littleSegmentLength(c)

\* extrudeLengthPERsegment = (0.006584 * fullSegmentLength) / segmentSteps
extrudeLengthPERsegment(c, full) ==
    KFine * ((full * littleSegmentLength(c)) \div full)

\* variant of StartExtrusion: the accumulator starts at the target value
StartExtrusion_AtTarget(E, full) == E

\* E_inCode_last = E_inCode - (extrudeLengthPERsegment * segmentSteps)
StartExtrusion(E, full) == E - KFine * full

littlesegmentDirectionandLength(c, from, to, full) ==
    Point2D(((to.x - from.x) * littleSegmentLength(c)) \div full,
            ((to.y - from.y) * littleSegmentLength(c)) \div full)

\* variant of ClosingLine: the closing line is written from the cursor and the
\* accumulator the step loop left
ClosingLine_AtCursor(c, speed, currentPosition, E, g) ==
    AppendFeed(gcode_template(g.lastPosition.x, g.lastPosition.y, g.E_inCode_last),
               Trunc(speed * c.min_speed_factor, SpeedUnit))

\* lines 508-510: the closing line; g is the state the step loop left
ClosingLine(c, speed, currentPosition, E, g) ==
    AppendFeed(gcode_template(currentPosition.x, currentPosition.y, E),
               Trunc(speed * c.min_speed_factor, SpeedUnit))

NoInfo ==
    [kind |-> "fault", n |-> 0, full |-> 0, es |-> << >>, feeds |-> << >>,
     trail |-> << >>, nears |-> << >>]

\* lines 437-523 for a line of the fill section that carries G1, X, Y and E:
\* the fault raised, or the text that replaces the line
Grade(c, walls, speed, from, line, prefix) ==
    LET Rewrite(currentPosition, E, fullSegmentLength, n, g) ==
            LET failed(f) == [fault |-> f, text |-> << >>,
                              info |-> [NoInfo EXCEPT !.full = fullSegmentLength]]
            IN  IF fullSegmentLength = 0 THEN failed("ZeroDivisionError")
                ELSE IF speed = NoSpeed THEN failed("UnboundLocalError")
                ELSE IF Subdivided(c, fullSegmentLength)
                THEN IF g.fault # "none" THEN failed(g.fault)
                     ELSE [fault |-> "none",
                           \* new_Line ends with "\n": an empty line follows the
                           \* closing one
                           text |-> g.new_Line
                                    \o << ClosingLine(c, speed, currentPosition, E, g),
                                          << >> >>,
                           info |-> [kind |-> "subdiv", n |-> n,
                                     full |-> fullSegmentLength,
                                     es |-> Append(g.es, E), feeds |-> g.feeds,
                                     trail |-> g.trail, nears |-> g.nears]]
                ELSE [fault |-> "none", text |-> << outPutLine(line) >>,
                      info |-> [NoInfo EXCEPT !.kind = "short",
                                              !.full = fullSegmentLength]]
        Steps(currentPosition, E, fullSegmentLength) ==
            LET g0 == [fault |-> "none", lastPosition |-> from,
                       E_inCode_last |-> StartExtrusion(E, fullSegmentLength),
                       step_number |-> 0, last_step_number |-> 0,
                       stringFeed |-> NoFeed, new_Line |-> prefix, es |-> << >>,
                       feeds |-> << >>, trail |-> << >>, nears |-> << >>]
            IN  Rewrite(currentPosition, E, fullSegmentLength,
                        StepCount(c, fullSegmentLength),
                        GradeLoop(c, walls, speed, fullSegmentLength,
                                  littlesegmentDirectionandLength(c, from, currentPosition,
                                                                  fullSegmentLength),
                                  extrudeLengthPERsegment(c, fullSegmentLength), g0,
                                  StepCount(c, fullSegmentLength)))
        Measure(currentPosition) ==
            Steps(currentPosition, E_inCode(line),
                  two_points_distance(from, currentPosition))
        xyFault == getXYFault(line)
    IN  IF xyFault # "none"
        THEN [fault |-> xyFault, text |-> << >>, info |-> NoInfo]
        ELSE Measure(getXY(line))

-----------------------------------------------------------------------------
(* One iteration of `for currentLineINcode in lines`: lines 398-538 *)

\* list.index(x): the first position that holds x
IndexOf(list, x) ==
    CHOOSE i \in 1..Len(list) : list[i] = x /\ \A j \in 1..(i - 1) : list[j] # x

IsMotionXY(line) ==
    In("X", line) /\ In("Y", line) /\ (In("G1", line) \/ In("G0", line))

IsFillMove(line) ==
    In("E", line) /\ In("G1", line) /\ In("X", line) /\ In("Y", line)

\* variant of WallsAfter: the moves of the outer wall are recorded as well
WallsAfter_OuterToo(walls, section, from, line) ==
    IF section \in {INNER_WALL, OUTER_WALL}
       /\ In("G1", line) /\ In("X", line) /\ In("Y", line) /\ In("E", line)
    THEN [bound |-> TRUE,
          segs |-> Append(IF StartsWith(line, LAYER_MARK) THEN << >> ELSE walls.segs,
                          [point1 |-> getXY(line), point2 |-> from])]
    ELSE IF StartsWith(line, LAYER_MARK) THEN [bound |-> TRUE, segs |-> << >>]
    ELSE walls

\* lines 403-417: the new-layer marker, the wall markers, the wall index
WallsAfter(walls, section, from, line) ==
    LET cleared == IF is_layer(line) THEN Bound(<< >>) ELSE walls
    IN  IF section = INNER_WALL /\ ez_nyomtatasi_vonal(line)
        THEN Bound(Append(cleared.segs, Segment(getXY(line), from)))
        ELSE cleared

\* variant of SectionAtWalls: the new-layer marker resets the section
SectionAtWalls_LayerResets(section, line) ==
    IF is_layer(line) THEN NOTHING
    ELSE IF is_outerwall(line) THEN OUTER_WALL
    ELSE IF is_innerwall(line) THEN INNER_WALL
    ELSE section

SectionAtWalls(section, line) ==
    LET s1 == IF is_innerwall(line) THEN INNER_WALL ELSE section
    IN  IF is_outerwall(line) THEN OUTER_WALL ELSE s1

WallAppendFault(walls, section, line) ==
    IF section = INNER_WALL /\ ez_nyomtatasi_vonal(line)
    THEN IF ~(is_layer(line) \/ walls.bound) THEN "UnboundLocalError"
         ELSE getXYFault(line)
    ELSE "none"

\* variant of PositionAfter: only G1 lines move the cursor
PositionAfter_G1Only(position, line) ==
    IF In("X", line) /\ In("Y", line) /\ In("G1", line) THEN getXY(line)
    ELSE position

\* lines 537-538: a line with X, Y and G1 or G0 moves the cursor
PositionAfter(position, line) ==
    IF IsMotionXY(line) THEN getXY(line) ELSE position

\* lines 428-435: the feed of a G1 line of the fill section
SpeedFault(line) ==
    IF In("F", line) /\ In("G1", line) /\ FirstOf("F", line).v < 0
    THEN "ValueError" ELSE "none"

SpeedAfter(speed, line) ==
    IF In("F", line) /\ In("G1", line) THEN FirstOf("F", line).v ELSE speed

NoEvent ==
    [kind |-> "none", line |-> << >>, own |-> 0, slot |-> 0,
     from |-> Point2D(0, 0), section |-> NOTHING, graded |-> FALSE, walls |-> 0,
     text |-> << >>, n |-> 0, full |-> 0, es |-> << >>, feeds |-> << >>,
     trail |-> << >>, nears |-> << >>]

\* variant of FillMark: the marker line is taken out of the list
FillMark_Consumed(s, walls, event) ==
    [s EXCEPT !.currentSection = INFILL, !.perimeterSegments = walls,
              !.lines = [s.lines EXCEPT ![event.own] = << >>],
              !.ev = [event EXCEPT !.kind = "fillmark"]]

\* lines 420-425: the fill-start marker sets the section and `continue`
\* skips the rest of the iteration; nothing is written to the list
FillMark(s, walls, event) ==
    [s EXCEPT !.currentSection = INFILL, !.perimeterSegments = walls,
              !.ev = [event EXCEPT !.kind = "fillmark"]]

\* the whole iteration for the line at position own of list; s holds the
\* variables of execute that the iteration reads and writes
Iteration(c, s, list, own) ==
    LET crash(f, event) == [s EXCEPT !.fault = f, !.ev = [event EXCEPT !.kind = "fault"]]
        Outcome(line, line_index, sec1, walls, speedIn, graded, gr) ==
            LET list1 == IF graded THEN [list EXCEPT ![line_index] = gr.text] ELSE list
                endsFill == sec1 = INFILL /\ In(";", line)
                base == [NoEvent EXCEPT !.line = line, !.own = own,
                                        !.from = s.lastPosition,
                                        !.section = s.currentSection]
                gbase == [base EXCEPT !.graded = TRUE, !.full = gr.info.full,
                                      !.walls = IF walls.bound THEN Len(walls.segs)
                                                ELSE -1]
            IN  IF is_infill(line) THEN FillMark(s, walls, base)
                ELSE IF sec1 = INFILL /\ SpeedFault(line) # "none"
                THEN crash(SpeedFault(line), base)
                ELSE IF graded /\ gr.fault # "none" THEN crash(gr.fault, gbase)
                ELSE IF IsMotionXY(line) /\ getXYFault(line) # "none"
                THEN crash(getXYFault(line), base)
                ELSE [fault |-> "none",
                      currentSection |-> IF endsFill THEN NOTHING ELSE sec1,
                      perimeterSegments |-> walls,
                      current_speed |-> speedIn,
                      lastPosition |-> PositionAfter(s.lastPosition, line),
                      lines |-> IF endsFill
                                THEN [list1 EXCEPT ![line_index] = << line >>]
                                ELSE list1,
                      ev |-> IF graded
                             THEN [gbase EXCEPT !.kind = gr.info.kind,
                                                !.slot = line_index,
                                                !.text = gr.text, !.n = gr.info.n,
                                                !.es = gr.info.es,
                                                !.feeds = gr.info.feeds,
                                                !.trail = gr.info.trail,
                                                !.nears = gr.info.nears]
                             ELSE IF endsFill
                             THEN [base EXCEPT !.kind = "endfill", !.slot = line_index]
                             ELSE [base EXCEPT !.kind = "plain"]]
        Fill(line, sec1, walls, speedIn) ==
            Outcome(line, IndexOf(list, << line >>), sec1, walls, speedIn,
                    sec1 = INFILL /\ IsFillMove(line),
                    Grade(c, walls, speedIn, s.lastPosition, line,
                          IF sec1 = INFILL /\ In("F", line) /\ In("G1", line)
                          THEN << FeedLine(speedIn) >> ELSE << >>))
        Walls(line, sec1) ==
            LET wfault == WallAppendFault(s.perimeterSegments, sec1, line)
            IN  IF wfault # "none"
                THEN crash(wfault, [NoEvent EXCEPT !.line = line, !.own = own,
                                                   !.from = s.lastPosition,
                                                   !.section = s.currentSection])
                ELSE Fill(line, sec1,
                          WallsAfter(s.perimeterSegments, sec1, s.lastPosition, line),
                          IF sec1 = INFILL THEN SpeedAfter(s.current_speed, line)
                          ELSE s.current_speed)
        Section(line) == Walls(line, SectionAtWalls(s.currentSection, line))
    IN  Section(list[own][1])

\* "\n".join(lines): the lines of all the slots, in order
RECURSIVE Join(_)
Join(list) == IF list = << >> THEN << >> ELSE Head(list) \o Join(Tail(list))

\* layer.split("\n"): one slot per line
Split(layer) == [i \in 1..Len(layer) |-> << layer[i] >>]

-----------------------------------------------------------------------------
(* The programs handed to execute *)

L_LAYER == Ln(<< <<LAYER_MARK, 0>> >>)
L_INNER == Ln(<< <<INNER_MARK, 0>> >>)
L_OUTER == Ln(<< <<OUTER_MARK, 0>> >>)
L_FILL == Ln(<< <<FILL_MARK, 0>> >>)
L_MESH == Ln(<< <<MESH_MARK, 0>> >>)
\* G1 F1200
L_FEED == Ln(<< <<"G1", 0>>, <<"F", 1200>> >>)
\* G0 X0 Y0
L_G0 == Ln(<< <<"G0", 0>>, <<"X", 0>>, <<"Y", 0>> >>)
\* G1 F1200 X2.5004 Y0 E0.123456
L_A == Ln(<< <<"G1", 0>>, <<"F", 1200>>, <<"X", 25004>>, <<"Y", 0>>, <<"E", 123456>> >>)
\* G1 X0 Y3 E0.2
L_B == Ln(<< <<"G1", 0>>, <<"X", 0>>, <<"Y", 30000>>, <<"E", 200000>> >>)
\* G1 X1 Y0 E0.5 F1200
L_C == Ln(<< <<"G1", 0>>, <<"X", 10000>>, <<"Y", 0>>, <<"E", 500000>>, <<"F", 1200>> >>)
\* G1 X1 Y0 E0.5
L_D == Ln(<< <<"G1", 0>>, <<"X", 10000>>, <<"Y", 0>>, <<"E", 500000>> >>)
\* G1 X0 Y3 E0.2 ;
L_S == Ln(<< <<"G1", 0>>, <<"X", 0>>, <<"Y", 30000>>, <<"E", 200000>>, <<";", 0>> >>)
\* G1 X-1 Y0 E0.6
L_N == Ln(<< <<"G1", 0>>, <<"X", -10000>>, <<"Y", 0>>, <<"E", 600000>> >>)

Heads ==
    { << L_LAYER, L_G0 >>,
      << L_LAYER, L_G0, L_INNER, L_B >>,
      << L_LAYER, L_G0, L_INNER, L_B, L_G0 >>,
      << L_LAYER, L_G0, L_INNER, L_B, L_D >>,
      << L_LAYER, L_FEED, L_G0 >>,
      << L_OUTER, L_G0, L_D >> }

Tails ==
    { << L_FILL, L_A >>,
      << L_FILL, L_FEED, L_B, L_MESH >>,
      << L_FILL, L_C, L_C >>,
      << L_FILL, L_D >>,
      << L_FILL, L_S >>,
      << L_N >>,
      << >> }

LayerSet == { h \o t : h \in Heads, t \in Tails }

RECURSIVE SeqsUpTo(_, _)
SeqsUpTo(S, n) ==
    IF n = 0 THEN { << >> }
    ELSE LET shorter == SeqsUpTo(S, n - 1)
         IN  shorter \cup { Append(q, x) : q \in shorter, x \in S }

Programs == SeqsUpTo(LayerSet, MaxLayers) \ { << >> }

Sentinel == Point2D(-10000 * CoordUnit, -10000 * CoordUnit)

-----------------------------------------------------------------------------
(* execute *)

Init ==
    /\ pc = "start"
    /\ input \in Programs
    /\ data = input
    /\ returned = "pending"
    /\ fault = "none"
    /\ message = "none"
    /\ cfg \in Settings
    /\ infillpattern = NoPattern
    /\ connectinfill = FALSE
    /\ infill_type = 0
    /\ layer_pos = 0
    /\ lines = << >>
    /\ line_pos = 0
    /\ currentSection = NOTHING
    /\ lastPosition = Sentinel
    /\ perimeterSegments = Unbound
    /\ current_speed = NoSpeed
    /\ ev = NoEvent

\* lines 366-390: the host's answers and the eligibility gate
Gate ==
    /\ pc = "start"
    /\ \E p \in Patterns, z \in BOOLEAN :
        /\ infillpattern' = p
        /\ connectinfill' = z
        /\ infill_type' = fill_type(p)
        /\ IF fill_type(p) = 0
           THEN pc' = "rejected" /\ message' = "pattern" /\ returned' = "None"
           ELSE IF z = TRUE
           THEN pc' = "rejected" /\ message' = "connect" /\ returned' = "None"
           ELSE pc' = "accepted" /\ message' = "none" /\ returned' = returned
    /\ UNCHANGED <<input, data, fault, cfg, layer_pos, lines, line_pos,
                   currentSection, lastPosition, perimeterSegments,
                   current_speed, ev>>

\* lines 392-395: the parameters are logged (the last use of infillpattern)
\* and the loop over the layers is entered
EnterLoop ==
    /\ pc = "accepted"
    /\ pc' = "layer"
    /\ layer_pos' = 1
    /\ infillpattern' = NoPattern
    /\ UNCHANGED <<input, data, returned, fault, message, cfg, connectinfill,
                   infill_type, lines, line_pos, currentSection, lastPosition,
                   perimeterSegments, current_speed, ev>>

\* lines 395-397: the next layer is split into lines
BeginLayer ==
    /\ pc = "layer"
    /\ layer_pos <= Len(data)
    /\ lines' = Split(data[layer_pos])
    /\ line_pos' = 1
    /\ pc' = "line"
    /\ UNCHANGED <<input, data, returned, fault, message, cfg, infillpattern,
                   connectinfill, infill_type, layer_pos, currentSection,
                   lastPosition, perimeterSegments, current_speed, ev>>

\* lines 398-538: one line of the layer
ProcessLine ==
    /\ pc = "line"
    /\ line_pos <= Len(lines)
    /\ \E r \in { Iteration(cfg,
                             [fault |-> fault, currentSection |-> currentSection,
                              perimeterSegments |-> perimeterSegments,
                              current_speed |-> current_speed,
                              lastPosition |-> lastPosition,
                              lines |-> lines, ev |-> ev],
                             lines, line_pos) } :
           /\ fault' = r.fault
           /\ currentSection' = r.currentSection
           /\ perimeterSegments' = r.perimeterSegments
           /\ current_speed' = r.current_speed
           /\ lastPosition' = r.lastPosition
           /\ lines' = r.lines
           /\ ev' = r.ev
           /\ IF r.fault # "none"
              THEN pc' = "crashed" /\ line_pos' = line_pos
              ELSE pc' = pc /\ line_pos' = line_pos + 1
    /\ UNCHANGED <<input, data, returned, message, cfg, infillpattern,
                   connectinfill, infill_type, layer_pos>>

\* lines 396 and 540-541: the lines are joined and stored at the position
\* data.index(layer) finds
EndLayer ==
    /\ pc = "line"
    /\ line_pos > Len(lines)
    /\ LET layer_index == IndexOf(data, data[layer_pos])
       IN  data' = [data EXCEPT ![layer_index] = Join(lines)]
    /\ layer_pos' = layer_pos + 1
    /\ pc' = "layer"
    /\ UNCHANGED <<input, returned, fault, message, cfg, infillpattern,
                   connectinfill, infill_type, lines, line_pos, currentSection,
                   lastPosition, perimeterSegments, current_speed, ev>>

\* line 542: return data
Finish ==
    /\ pc = "layer"
    /\ layer_pos > Len(data)
    /\ pc' = "done"
    /\ returned' = "data"
    /\ UNCHANGED <<input, data, fault, message, cfg, infillpattern,
                   connectinfill, infill_type, layer_pos, lines, line_pos,
                   currentSection, lastPosition, perimeterSegments,
                   current_speed, ev>>

Next == Gate \/ EnterLoop \/ BeginLayer \/ ProcessLine \/ EndLayer \/ Finish

Spec == Init /\ [][Next]_vars

-----------------------------------------------------------------------------
(* Helpers of the properties *)

HasXY(l) == l # << >> /\ In("X", l) /\ In("Y", l)

\* the motion lines of a replacement text, in order
MotionLines(text) == SelectSeq(text, HasXY)

FieldOf(s, l) == FirstOf(s, l).v

\* the fill-start markers among the lines of a text
FillMarks(text) == { k \in 1..Len(text) : is_infill(text[k]) }

LayerComplete == pc = "line" /\ line_pos > Len(lines)

\* the identifiers of the patterns the specification lists as linear-style
AllowList ==
    {"grid", "lines", "triangles", "trihexagon", "cubic", "tetrahedral",
     "quarter_cubic"}

-----------------------------------------------------------------------------
(* C1 *)

\* C1: when the eligibility gate rejects the run, execute hands back the
\* input program: the returned value is the caller's list of layers and no
\* layer of it has been modified.
C1_RejectedReturnsInput ==
    pc = "rejected" => (returned = "data" /\ data = input)

-----------------------------------------------------------------------------
(* C2 *)

C2_Closing == LET m == MotionLines(ev.text) IN m[Len(m)]

-----------------------------------------------------------------------------
(* C3 *)

\* C3: an iteration of the line loop changes no slot of the layer other
\* than the slot of a fill-section motion line carrying X, Y and E that it
\* is processing: every other line stays in the output as it was.
C3_OtherLinesUnchanged ==
    [][(pc = "line" /\ pc' = "line") =>
        \A i \in 1..Len(lines) :
            (i # line_pos
             \/ ~(SectionAtWalls(currentSection, lines[line_pos][1]) = INFILL
                  /\ IsFillMove(lines[line_pos][1])))
            => lines'[i] = lines[i]]_vars

-----------------------------------------------------------------------------
(* C4 *)

\* C4 (as stated): a fill-start marker sets the section to INFILL and the
\* marker line does not appear in the output text of the layer.
C4_MarkerDropped ==
    /\ ev.kind = "fillmark" => currentSection = INFILL
    /\ LayerComplete => FillMarks(Join(lines)) = {}

\* C4 (amended): a fill-start marker sets the section to INFILL and the rest
\* of the iteration is skipped; the marker line stays in its slot and is part
\* of the output text of the layer, unchanged.
C4_MarkerKept ==
    /\ ev.kind = "fillmark" => currentSection = INFILL
    /\ pc = "line" =>
        \A i \in 1..Len(lines) :
            is_infill(input[layer_pos][i]) => lines[i] = << input[layer_pos][i] >>
    /\ LayerComplete =>
        Cardinality(FillMarks(Join(lines))) = Cardinality(FillMarks(input[layer_pos]))

\* a layer with a fill-start marker has been processed to its end
C4_Witness ==
    /\ LayerComplete
    /\ FillMarks(input[layer_pos]) # {}
    /\ Join(lines) # input[layer_pos]

-----------------------------------------------------------------------------
(* C5 *)

\* the last iteration graded a fill move long enough to be subdivided, with
\* a feed rate known, while the wall index was empty
C5_EmptyIndexGrading ==
    /\ ev.graded
    /\ ev.walls = 0
    /\ getXYFault(ev.line) = "none"
    /\ Subdivided(cfg, ev.full)
    /\ current_speed # NoSpeed

\* C5: grading a subdivided fill move while the wall index is empty does not
\* fail: the move is rewritten and the run goes on.
C5_EmptyIndexSurvives ==
    C5_EmptyIndexGrading => (fault = "none" /\ ev.kind = "subdiv")

-----------------------------------------------------------------------------
(* C6 *)

\* C6: a fill motion line whose target is the current position is handled
\* without a fault, by the short-move policy: one output line.
C6_ZeroLengthIsShortMove ==
    (ev.graded /\ getXYFault(ev.line) = "none" /\ getXY(ev.line) = ev.from)
        => (fault = "none" /\ ev.kind = "short" /\ Len(ev.text) = 1)

-----------------------------------------------------------------------------
(* C7 *)

\* C7: a fill motion line that is not subdivided is replaced by one line,
\* the original line with only the extrusion field rewritten to its value
\* rounded to 5 decimals: every other element and every separator is as in
\* the input, whatever the order of the fields.
C7_ShortMoveRewritesOnlyE ==
    ev.kind = "short" =>
        /\ Len(ev.text) = 1
        /\ Len(ev.text[1]) = Len(ev.line)
        /\ \A i \in 1..Len(ev.line) :
            ev.text[1][i] =
                IF ev.line[i].t = "E"
                THEN El("E", RoundTo(ev.line[i].v, 10), ev.line[i].sp)
                ELSE ev.line[i]

-----------------------------------------------------------------------------
(* C8 *)

\* C8 (as stated): the extrusion values of the lines emitted for a
\* subdivided fill move are strictly increasing and the last one is the
\* extrusion value of the original line.
C8_StrictlyIncreasing ==
    ev.kind = "subdiv" =>
        /\ \A i \in 1..(Len(ev.es) - 1) : ev.es[i] < ev.es[i + 1]
        /\ ev.es[Len(ev.es)] = FieldOf("E", ev.line) * EFine

C8_Emitted == LET m == MotionLines(ev.text) IN [i \in 1..Len(m) |-> FieldOf("E", m[i])]

\* C8 (amended): the extrusion values of the intermediate lines are strictly
\* increasing, the closing value is the extrusion value of the original line
\* and is not below the last intermediate one; it equals the last
\* intermediate one exactly when steps is a whole number.  The values
\* written on the lines (rounded to 5 decimals) never decrease.
C8_NonDecreasing ==
    ev.kind = "subdiv" =>
        /\ Len(ev.es) = ev.n + 1
        /\ \A i \in 1..(ev.n - 1) : ev.es[i] < ev.es[i + 1]
        /\ ev.es[ev.n] <= ev.es[ev.n + 1]
        /\ (ev.es[ev.n] = ev.es[ev.n + 1]) <=> (ev.full = ev.n * littleSegmentLength(cfg))
        /\ ev.es[ev.n + 1] = FieldOf("E", ev.line) * EFine
        /\ Len(C8_Emitted) = ev.n + 1
        /\ \A i \in 1..ev.n : C8_Emitted[i] <= C8_Emitted[i + 1]

\* a subdivided move whose steps is a whole number
C8_Witness ==
    /\ ev.kind = "subdiv"
    /\ ev.n >= 2
    /\ ev.full = ev.n * littleSegmentLength(cfg)

-----------------------------------------------------------------------------
(* C9 *)

\* C9: with feed grading enabled, in a subdivided fill move with at least
\* 2 * divisions steps the feeds of the first `divisions` steps never
\* decrease and the feeds of the last `divisions` steps never increase.
C9_RampMonotone ==
    (ev.kind = "subdiv" /\ cfg.variable_speed /\ ev.n >= 2 * cfg.division_nr) =>
        /\ Len(ev.feeds) = ev.n
        /\ \A i \in 1..(cfg.division_nr - 1) : ev.feeds[i] <= ev.feeds[i + 1]
        /\ \A i \in (ev.n - cfg.division_nr + 1)..(ev.n - 1) :
              ev.feeds[i] >= ev.feeds[i + 1]

\* a graded move with two divisions whose two ramps both change the feed
C9_Witness ==
    /\ ev.kind = "subdiv"
    /\ cfg.variable_speed
    /\ cfg.division_nr = 2
    /\ ev.n >= 4
    /\ ev.feeds[1] < ev.feeds[2]
    /\ ev.feeds[ev.n - 1] > ev.feeds[ev.n]

-----------------------------------------------------------------------------
(* C10 *)

\* C10: the gate accepts the run exactly when the fill pattern is in the
\* allow-list and connect-infill-lines is off; after a rejection no layer is
\* processed.
C10_Gate ==
    /\ pc = "accepted" => (infillpattern \in AllowList /\ connectinfill = FALSE)
    /\ pc = "rejected" =>
        /\ ~(infillpattern \in AllowList /\ connectinfill = FALSE)
        /\ data = input /\ layer_pos = 0 /\ lines = << >> /\ ev = NoEvent
    /\ pc \in {"layer", "line", "done", "crashed"} =>
        (infill_type = 1 /\ connectinfill = FALSE)

\* an allow-listed pattern rejected because connect-infill-lines is on
C10_Witness ==
    pc = "rejected" /\ infillpattern = "triangles" /\ connectinfill = TRUE


-----------------------------------------------------------------------------
(* C11 *)

\* C11: the text that replaces a fill motion line is stored in the slot of
\* that line: the slot written by the iteration is the position of the line
\* the iteration is processing, also when the layer holds the same text twice.
C11_OwnSlot ==
    ev.kind \in {"subdiv", "short"} => ev.slot = ev.own

-----------------------------------------------------------------------------
(* C12 *)

\* the step about to be taken processes a new-layer marker
C12_AtLayerMarker ==
    pc = "line" /\ line_pos <= Len(lines) /\ is_layer(lines[line_pos][1])

\* C12 (as stated): a new-layer marker line never changes the section,
\* whatever the section is; its only effect is that the wall index is cleared.
C12_NeverChangesSection ==
    [][C12_AtLayerMarker =>
        /\ currentSection' = currentSection
        /\ perimeterSegments' = Bound(<< >>)
        /\ UNCHANGED <<lines, lastPosition, current_speed, data, fault>>]_vars

\* C12 (amended): a new-layer marker line leaves the section as it is when
\* the section is NOTHING, INNER_WALL or OUTER_WALL; when the section is
\* INFILL the marker, being a line that contains ";", ends the fill section
\* (NOTHING).  Its only other effect is that the wall index is cleared.
C12_ChangesOnlyFill ==
    [][C12_AtLayerMarker =>
        /\ currentSection' = IF currentSection = INFILL THEN NOTHING
                             ELSE currentSection
        /\ perimeterSegments' = Bound(<< >>)
        /\ UNCHANGED <<lines, lastPosition, current_speed, data, fault>>]_vars

\* the new-layer marker of a second layer has been processed while the
\* section was INNER_WALL and the wall index held a segment
C12_Witness ==
    /\ layer_pos = 2
    /\ ev.kind = "plain"
    /\ is_layer(ev.line)
    /\ ev.section = INNER_WALL
    /\ currentSection = INNER_WALL
    /\ perimeterSegments = Bound(<< >>)

-----------------------------------------------------------------------------
(* C13 *)

\* a motion command: a line with the command token G0 or G1
C13_IsMotion(line) == In("G0", line) \/ In("G1", line)

\* the section the claim gives after a line that is not a new-layer marker
C13_Expected(section, line) ==
    IF is_innerwall(line) THEN INNER_WALL
    ELSE IF is_outerwall(line) THEN OUTER_WALL
    ELSE IF is_infill(line) THEN INFILL
    ELSE IF section = INFILL /\ In(";", line) /\ ~C13_IsMotion(line) THEN NOTHING
    ELSE section

\* C13: a line other than the new-layer marker changes the section only as
\* follows: the wall markers and the fill-start marker set their section, and
\* in the fill section a line that contains ";" and is not a motion command
\* sets NOTHING; every other line, a fill motion command included, and every
\* layer boundary leaves the section as it is.
C13_SectionTransitions ==
    [][/\ (pc = "line" /\ line_pos <= Len(lines) /\ pc' = "line"
           /\ ~is_layer(lines[line_pos][1]))
          => currentSection' = C13_Expected(currentSection, lines[line_pos][1])
       /\ ~(pc = "line" /\ line_pos <= Len(lines))
          => currentSection' = currentSection]_vars


-----------------------------------------------------------------------------
(* C14 and C15 *)

\* the line has a field (or command token) with the letter f
HasField(line, f) == \E i \in 1..Len(line) : line[i].t = f

\* the coordinates written on a line that has an X and a Y field
Target(line) ==
    Point2D((CHOOSE e \in { line[i] : i \in 1..Len(line) } : e.t = "X").v,
            (CHOOSE e \in { line[i] : i \in 1..Len(line) } : e.t = "Y").v)

\* the step about to be taken processes a line and does not end in a fault
LineStep == pc = "line" /\ line_pos <= Len(lines) /\ pc' = "line"

\* a G1 line carrying X, Y and E
C14_IsWallMove(line) ==
    HasField(line, "G1") /\ HasField(line, "X") /\ HasField(line, "Y")
    /\ HasField(line, "E")

\* C14: once a new-layer marker has been seen, the wall index is emptied by
\* every new-layer marker, receives Segment(point of the line, lastPosition
\* before the line) at its end for every G1 line carrying X, Y and E that is
\* processed in section INNER_WALL, and is changed by no other line and by no
\* other step: it holds those segments, and only those, in insertion order.
C14_WallIndex ==
    [][/\ (LineStep /\ (perimeterSegments.bound \/ is_layer(lines[line_pos][1])))
          => perimeterSegments' =
                Bound(IF is_layer(lines[line_pos][1]) THEN << >>
                      ELSE IF currentSection = INNER_WALL
                              /\ C14_IsWallMove(lines[line_pos][1])
                      THEN Append(perimeterSegments.segs,
                                  Segment(Target(lines[line_pos][1]), lastPosition))
                      ELSE perimeterSegments.segs)
       /\ ~(pc = "line" /\ line_pos <= Len(lines))
          => perimeterSegments' = perimeterSegments]_vars

\* two wall moves of one layer are in the index, in the order of the lines
C14_Witness ==
    perimeterSegments =
        Bound(<< Segment(Point2D(0, 30000), Point2D(0, 0)),
                 Segment(Point2D(10000, 0), Point2D(0, 30000)) >>)

\* a G0 or G1 line carrying X and Y
C15_IsMotionXY(line) ==
    (HasField(line, "G0") \/ HasField(line, "G1"))
    /\ HasField(line, "X") /\ HasField(line, "Y")

\* C15: lastPosition starts at the sentinel; a G0 or G1 line carrying X and Y
\* leaves it at the coordinates of the line, in any section and also after a
\* subdivided fill move; every other line and every other step (layer
\* boundaries included) leaves it unchanged.
C15_Cursor ==
    [][/\ pc = "start" => lastPosition = Sentinel
       /\ LineStep =>
            lastPosition' = IF C15_IsMotionXY(lines[line_pos][1])
                            THEN Target(lines[line_pos][1])
                            ELSE lastPosition
       /\ ~(pc = "line" /\ line_pos <= Len(lines))
          => lastPosition' = lastPosition]_vars

\* a subdivided fill move whose steps do not end on the target has left the
\* cursor on the target of the line, in the second layer
C15_Witness ==
    /\ layer_pos = 2
    /\ ev.kind = "subdiv"
    /\ ev.full % littleSegmentLength(cfg) # 0
    /\ lastPosition = Target(ev.line)
    /\ lastPosition.x % 10 # 0


-----------------------------------------------------------------------------
(* C16 *)

\* the number of steps before step i (counted from 1) that took the
\* trailing-ramp feed
C16_TrailingBefore(i) == Cardinality({ j \in 1..(i - 1) : ev.trail[j] })

\* C16: with grading enabled, step stepIndex of a subdivided fill move takes
\* the trailing-ramp feed (max feed minus deficit times the trailing counter)
\* exactly when stepIndex >= n - divisions with n = floor(steps), so exactly
\* min(n, divisions) steps of the move are trailing-ramp steps.
C16_TrailingByFloor ==
    (ev.kind = "subdiv" /\ cfg.variable_speed) =>
        /\ \A i \in 1..ev.n :
            /\ ev.trail[i] <=> (i - 1 >= ev.n - cfg.division_nr)
            /\ ev.trail[i] =>
                ev.feeds[i] = current_speed * cfg.max_speed_factor
                              - speed_deficit(cfg, current_speed)
                                * C16_TrailingBefore(i)
        /\ Cardinality({ i \in 1..ev.n : ev.trail[i] })
              = IF ev.n < cfg.division_nr THEN ev.n ELSE cfg.division_nr

-----------------------------------------------------------------------------
(* C17 *)

\* floor(steps) of the last graded move, from its length
C17_Floor == ev.full \div littleSegmentLength(cfg)

\* C17 (as stated): a subdivided fill move is replaced by floor(steps)
\* intermediate motion lines and one closing line, and nothing else; the
\* closing line carries the feed int(currentFeedRate * minSpeedFactor).
C17_StepsAndClosingOnly ==
    ev.kind = "subdiv" =>
        /\ Len(ev.text) = C17_Floor + 1
        /\ \A i \in 1..Len(ev.text) : HasXY(ev.text[i])
        /\ FieldOf("F", ev.text[Len(ev.text)])
              = Trunc(current_speed * cfg.min_speed_factor, SpeedUnit)

\* the feed line that opens the replacement text of a line carrying F
C17_Prefix ==
    IF HasField(ev.line, "F") THEN << FeedLine(current_speed) >> ELSE << >>

\* C17 (amended): a subdivided fill move is replaced by, in this order, a
\* feed line "G1 F<currentFeedRate>" when the original line carries a feed
\* field, floor(steps) intermediate motion lines, one closing motion line and
\* one empty line; the closing line carries the feed
\* int(currentFeedRate * minSpeedFactor) with grading enabled or disabled and
\* whether or not the original line carried a feed field.
C17_FeedStepsClosingEmpty ==
    ev.kind = "subdiv" =>
        LET p == Len(C17_Prefix)
        IN  /\ Len(ev.text) = p + C17_Floor + 2
            /\ SubSeq(ev.text, 1, p) = C17_Prefix
            /\ \A i \in (p + 1)..(p + C17_Floor + 1) :
                  /\ HasXY(ev.text[i])
                  /\ HasField(ev.text[i], "G1") /\ HasField(ev.text[i], "E")
            /\ ev.text[Len(ev.text)] = << >>
            /\ FieldOf("F", ev.text[Len(ev.text) - 1])
                  = Trunc(current_speed * cfg.min_speed_factor, SpeedUnit)

\* a subdivided move of a line carrying a feed field, grading disabled, whose
\* steps is not a whole number
C17_Witness ==
    /\ ev.kind = "subdiv"
    /\ HasField(ev.line, "F")
    /\ ~cfg.variable_speed
    /\ ev.full % littleSegmentLength(cfg) # 0

-----------------------------------------------------------------------------
(* C18 *)

\* the run has been ended by a coordinate parse fault on the line ev.line
C18_ParseFault ==
    /\ pc = "crashed"
    /\ ev.kind = "fault"
    /\ getXYFault(ev.line) # "none"
    /\ fault = getXYFault(ev.line)

\* C18: when a coordinate parse fault ends the run, no layer of the program
\* held by the caller has been replaced by rewritten text.
C18_NoPartialResult ==
    C18_ParseFault => data = input

-----------------------------------------------------------------------------
(* C19 *)

\* C19: with grading enabled and minSpeedFactor <= 1 <= maxSpeedFactor, the
\* feed of every intermediate step of a subdivided fill move lies between
\* currentFeedRate * minSpeedFactor and currentFeedRate * maxSpeedFactor.
C19_FeedWithinFactors ==
    (/\ ev.kind = "subdiv"
     /\ cfg.variable_speed
     /\ cfg.min_speed_factor <= SpeedUnit
     /\ SpeedUnit <= cfg.max_speed_factor
     /\ cfg.division_nr >= 1)
    => \A i \in 1..Len(ev.feeds) :
          /\ current_speed * cfg.min_speed_factor <= ev.feeds[i]
          /\ ev.feeds[i] <= current_speed * cfg.max_speed_factor

-----------------------------------------------------------------------------
(* C20 *)

\* wall indexes of a second run: non-empty, without degenerate segments
C20_Walls ==
    LET A == Segment(Point2D(0, 30000), Point2D(0, 0))
        B == Segment(Point2D(20000, 10000), Point2D(20000, 0))
    IN  { << A >>, << B >>, << A, B >>, << B, A >> }

\* the last graded fill move, graded again with the wall index w
C20_Again(w) ==
    Grade(cfg, Bound(w), current_speed, ev.from, ev.line,
          IF In("F", ev.line) /\ In("G1", ev.line)
          THEN << FeedLine(current_speed) >> ELSE << >>)

\* C20: the lines emitted for a fill move do not depend on the contents of
\* the wall index: graded again with any other non-empty wall index, from the
\* same cursor, feed rate and configuration, the move gives the same lines.
C20_WallsDoNotMatter ==
    ev.kind \in {"subdiv", "short"} =>
        \A w \in C20_Walls :
            /\ C20_Again(w).fault = "none"
            /\ C20_Again(w).text = ev.text

\* a subdivided move, grading enabled, some of whose steps are near a wall
\* of one index and far from the walls of another
C20_Witness ==
    /\ ev.kind = "subdiv"
    /\ cfg.variable_speed
    /\ \E w \in C20_Walls : C20_Again(w).info.nears # ev.nears
    /\ \E i \in 1..ev.n : ~ev.trail[i] /\ i > cfg.division_nr /\ ev.nears[i]


-----------------------------------------------------------------------------
(* C21 *)

\* the last iteration graded a fill move carrying X, Y and E up to the point
\* where the feed rate is read: the coordinates were parsed and the length of
\* the move is not zero
C21_FeedRead ==
    /\ ev.graded
    /\ getXYFault(ev.line) = "none"
    /\ ev.full # 0

\* C21: the feed rate is never read while unset: whenever a fill move is
\* graded a feed value has been recorded, also when the feed commands seen so
\* far were outside the fill section or the first fill move carries no feed
\* field.
C21_FeedNeverUnset ==
    C21_FeedRead => (current_speed # NoSpeed /\ fault # "UnboundLocalError")

=============================================================================
